---- MODULE Spec2Model ----
(***************************************************************************)
(* Model of the k6 cloud output (package expv2): the HDR histogram of      *)
(* hdr.go, the push client of metrics_client.go and the flush cycle of     *)
(* output.go; of the trace ids of trace_id.go; of SignalAndWait of         *)
(* controller.go; and of the GaugeSink of package metrics.                 *)
(*                                                                         *)
(* Real numbers (float64 sample values) are modelled as rationals with the *)
(* fixed denominator Scale: a whole part and a count of 1 / Scale.         *)
(***************************************************************************)
EXTENDS Integers, Sequences, FiniteSets, TLC

VARIABLES
    values,        \* hdr.go: the []float64 handed to newHistogram (scaled)
    hist,          \* hdr.go: the histogram newHistogram returned, or NoHist
    building,      \* hdr.go: the histogram a loop of addToBucket calls fills
    probe,         \* hdr.go: the pair of values handed to resolveBucketIndex
    idx,           \* hdr.go: the pair of indexes it returned, or NoIdx
    client,        \* metrics_client.go: the *MetricsClient, or NoClient
    newCall,       \* metrics_client.go: the last NewMetricsClient call, if any
    pushLog,       \* metrics_client.go: one record per Push invocation
    referenceID,   \* output.go: Output.referenceID
    buffer,        \* output.go: Output.SampleBuffer, a FIFO of containers
    activeSeries,  \* output.go: Output.activeSeries
    ticks,         \* output.go: flushMetrics invocations so far
    held,          \* output.go: times of the samples a tick found and left buffered
    calls,         \* output.go: the AddSample and Clean calls made one by one
    clock,         \* the producers' clock: a sample's Time, which identifies it
    newTrace,      \* trace_id.go: the newTraceID call made, if any
    encodeCall,    \* trace_id.go: the traceID.Encode call made, if any
    ctrlLog,       \* controller.go: one record per SignalAndWait call
    gaugeSink,     \* metrics: a GaugeSink
    gaugeAdds      \* metrics: the samples given to the GaugeSink's Add, in order

histVars   == <<values, hist, building>>
idxVars    == <<probe, idx>>
clientVars == <<client, newCall>>
outputVars == <<referenceID, buffer, activeSeries, ticks, held, calls, clock>>
traceVars  == <<newTrace, encodeCall>>
sinkVars   == <<gaugeSink, gaugeAdds>>
vars       == <<values, hist, building, probe, idx, client, newCall, pushLog,
                referenceID, buffer, activeSeries, ticks, held, calls, clock,
                newTrace, encodeCall, ctrlLog, gaugeSink, gaugeAdds>>

(***************************************************************************)
(* Bounds of the model.                                                    *)
(***************************************************************************)
Scale == 2
MaxValues == 3
LinearProbeMax == 4
ProbeDelta == 1
MaxPushCalls == 2

(***************************************************************************)
(* Numbers.  The model checker's integers are 32 bit wide and do not wrap, *)
(* and every int32/uint32 quantity of the code stays far below 2^31 here,  *)
(* where Go's arithmetic is plain integer arithmetic.  A float64 is the    *)
(* record [hi, lo, f] standing for hi * Base + lo + f / Scale, with        *)
(* 0 <= lo < Base and 0 <= f < Scale, so that values such as 2^31 and sums *)
(* beyond it have a representation.                                        *)
(***************************************************************************)
Pow2(n) == 2 ^ n

Base == Pow2(16)

\* the float64 w + f / Scale, for an integer w
Real(w, f) == [hi |-> w \div Base, lo |-> w % Base, f |-> f]

\* the float64 2^n, for n >= 16
RealPow2(n) == [hi |-> Pow2(n - 16), lo |-> 0, f |-> 0]

RZero == Real(0, 0)

\* a < b
RLess(a, b) ==
    \/ a.hi < b.hi
    \/ a.hi = b.hi /\ a.lo < b.lo
    \/ a.hi = b.hi /\ a.lo = b.lo /\ a.f < b.f

RLeq(a, b) == a = b \/ RLess(a, b)

\* a + b
RAdd(a, b) ==
    LET f == a.f + b.f
        lo == a.lo + b.lo + (f \div Scale)
    IN  [hi |-> a.hi + b.hi + (lo \div Base), lo |-> lo % Base, f |-> f % Scale]

\* int32(math.Ceil(v)), for a v that an int32 holds
Ceil(v) == v.hi * Base + v.lo + (IF v.f > 0 THEN 1 ELSE 0)

\* x >> n on a non-negative int32
Shr(x, n) == x \div Pow2(n)

\* x << n on an int32
Shl(x, n) == x * Pow2(n)

\* int32(math.Floor(math.Log2(float64(x)))) for an integer x >= 1.  The argument
\* is below 2^24, so its float64 logarithm is exact at the powers of two and at
\* least 2^-25 away from the next integer elsewhere: the floor is the integer one.
RECURSIVE FloorLog2(_)
FloorLog2(x) == IF x <= 1 THEN 0 ELSE 1 + FloorLog2(x \div 2)

RECURSIVE SumSeq(_)
SumSeq(s) == IF s = <<>> THEN 0 ELSE Head(s) + SumSeq(Tail(s))

Zeros(n) == [i \in 1..n |-> 0]

(***************************************************************************)
(* hdr.go                                                                  *)
(***************************************************************************)
lowestTrackable == 0

highestTrackable == Pow2(30)

k == 7

\* histogram{}: the zero value of the struct
ZeroHistogram ==
    [Buckets |-> <<>>, ExtraLowBucket |-> 0, ExtraHighBucket |-> 0,
     FirstNotZeroBucket |-> 0, LastNotZeroBucket |-> 0,
     Max |-> RZero, Min |-> RZero, Sum |-> RZero, Count |-> 0]

\* a variant that spaces the octaves 2^(k+1) indexes apart
resolveBucketIndexWideOctave(val) ==
    IF RLess(val, RZero) THEN 0
    ELSE LET upscaled == Ceil(val)
         IN  IF upscaled >= 256
             THEN LET nk_diff == FloorLog2(Shr(upscaled, k))
                  IN  Shl(nk_diff, k + 1) + Shr(upscaled, nk_diff)
             ELSE upscaled

\* a variant that truncates the value where the code rounds it up
resolveBucketIndexTruncates(val) ==
    IF RLess(val, RZero) THEN 0
    ELSE LET upscaled == val.hi * Base + val.lo
         IN  IF upscaled >= 256
             THEN LET nk_diff == FloorLog2(Shr(upscaled, k))
                  IN  Shl(nk_diff, k) + Shr(upscaled, nk_diff)
             ELSE upscaled

\* a variant that shifts by one bit too many in the logarithmic region
resolveBucketIndexShiftOff(val) ==
    IF RLess(val, RZero) THEN 0
    ELSE LET upscaled == Ceil(val)
         IN  IF upscaled >= 256
             THEN LET nk_diff == FloorLog2(Shr(upscaled, k))
                  IN  Shl(nk_diff, k) + Shr(upscaled, nk_diff + 1)
             ELSE upscaled

resolveBucketIndex(val) ==
    IF RLess(val, RZero) THEN 0
    ELSE LET upscaled == Ceil(val)
         IN  IF upscaled >= 256
             THEN LET nk_diff == FloorLog2(Shr(upscaled, k))
                  IN  Shl(nk_diff, k) + Shr(upscaled, nk_diff)
             ELSE upscaled

\* a variant that does not let the first value initialize Max and Min
addStatsNoInit(h, v) ==
    [h EXCEPT !.Max = IF RLess(h.Max, v) THEN v ELSE h.Max,
              !.Min = IF RLess(v, h.Min) THEN v ELSE h.Min,
              !.Count = h.Count + 1,
              !.Sum = RAdd(h.Sum, v)]

\* the statistics part of addToBucket: Max, Min, Count, Sum
addStats(h, v) ==
    [h EXCEPT !.Max = IF h.Count = 0 THEN v ELSE IF RLess(h.Max, v) THEN v ELSE h.Max,
              !.Min = IF h.Count = 0 THEN v ELSE IF RLess(v, h.Min) THEN v ELSE h.Min,
              !.Count = h.Count + 1,
              !.Sum = RAdd(h.Sum, v)]

\* the bucket part of addToBucket, for a trackable value
addIndex(h, index) ==
    LET blen == Len(h.Buckets)
        first == IF blen = 0 THEN index
                 ELSE IF index < h.FirstNotZeroBucket THEN index
                 ELSE h.FirstNotZeroBucket
        last == IF blen = 0 THEN index
                ELSE IF index > h.LastNotZeroBucket THEN index
                ELSE h.LastNotZeroBucket
        grown == IF index >= blen
                 THEN h.Buckets \o Zeros(index - blen + 1)
                 ELSE h.Buckets
    IN  [h EXCEPT !.FirstNotZeroBucket = first,
                  !.LastNotZeroBucket = last,
                  !.Buckets = [grown EXCEPT ![index + 1] = @ + 1]]

\* a variant that counts the values below the range with those above it
addToBucketLowAsHigh(h, v) ==
    LET s == addStats(h, v)
    IN  IF RLess(Real(highestTrackable, 0), v)
        THEN [s EXCEPT !.ExtraHighBucket = @ + 1]
        ELSE IF RLess(v, Real(lowestTrackable, 0))
        THEN [s EXCEPT !.ExtraHighBucket = @ + 1]
        ELSE addIndex(s, resolveBucketIndex(v))

addToBucket(h, v) ==
    LET s == addStats(h, v)
    IN  IF RLess(Real(highestTrackable, 0), v)
        THEN [s EXCEPT !.ExtraHighBucket = @ + 1]
        ELSE IF RLess(v, Real(lowestTrackable, 0))
        THEN [s EXCEPT !.ExtraLowBucket = @ + 1]
        ELSE addIndex(s, resolveBucketIndex(v))

\* a variant whose slice stops one bucket short of LastNotZeroBucket
trimzerosExclusiveLast(h) ==
    IF h.Count < 1 \/ Len(h.Buckets) < 1 THEN h
    ELSE IF h.FirstNotZeroBucket = 0 /\ h.LastNotZeroBucket = 0
    THEN [h EXCEPT !.Buckets = <<>>]
    ELSE [h EXCEPT !.Buckets = SubSeq(h.Buckets, h.FirstNotZeroBucket + 1,
                                      h.LastNotZeroBucket)]

trimzeros(h) ==
    IF h.Count < 1 \/ Len(h.Buckets) < 1 THEN h
    ELSE IF h.FirstNotZeroBucket = 0 /\ h.LastNotZeroBucket = 0
    THEN [h EXCEPT !.Buckets = <<>>]
    ELSE [h EXCEPT !.Buckets = SubSeq(h.Buckets, h.FirstNotZeroBucket + 1,
                                      h.LastNotZeroBucket + 1)]

RECURSIVE addAll(_, _)
addAll(h, vs) == IF vs = <<>> THEN h ELSE addAll(addToBucket(h, Head(vs)), Tail(vs))

\* a variant that starts Min at a sentinel above every value
newHistogramMinSentinel(vs) ==
    IF Len(vs) < 1 THEN [ZeroHistogram EXCEPT !.Min = RealPow2(31)]
    ELSE trimzeros(addAll(ZeroHistogram, vs))

newHistogram(vs) ==
    IF Len(vs) < 1 THEN ZeroHistogram
    ELSE trimzeros(addAll(ZeroHistogram, vs))

(***************************************************************************)
(* metrics_client.go                                                       *)
(***************************************************************************)
StatusOK == 200

b100KiB == 100 * 1024

Hosts == {"", "https://ingest.k6.io", ":bad-url"}
Tokens == {"", "token"}
RefIDs == {"", "fake-test-id"}

\* the (*MetricsClient)(nil) returned beside an error
NoClient == [nil |-> TRUE, host |-> "", token |-> "", timeoutSec |-> 0]

\* a variant that forgets to require the token
NewMetricsClientNoTokenCheck(host, token) ==
    IF host = "" THEN [client |-> NoClient, err |-> "host is required"]
    ELSE [client |-> [nil |-> FALSE, host |-> host, token |-> token, timeoutSec |-> 5],
          err |-> ""]

NewMetricsClient(host, token) ==
    IF host = "" THEN [client |-> NoClient, err |-> "host is required"]
    ELSE IF token = "" THEN [client |-> NoClient, err |-> "token is required"]
    ELSE [client |-> [nil |-> FALSE, host |-> host, token |-> token, timeoutSec |-> 5],
          err |-> ""]

\* what proto.Marshal answers for a batch: an error, or a message of len bytes
MarshalError == [err |-> TRUE, len |-> 0]
Marshalled(n) == [err |-> FALSE, len |-> n]

\* snappy.MaxEncodedLen: its -1 is for a source of more than 0xffffffff bytes,
\* a length no integer of the model reaches
MaxEncodedLen(n) == 32 + n + (n \div 6)

NoBody == [encoding |-> "none", srcLen |-> 0]

\* a variant whose cap excludes a message of exactly 100 KiB
newRequestBodyInclusiveCap(data, marshal) ==
    IF marshal.err
    THEN [b |-> NoBody, err |-> "encoding series as protobuf write request failed"]
    ELSE IF marshal.len >= b100KiB
    THEN [b |-> NoBody, err |-> "the protobuf message is too large to be handled from the cloud processor"]
    ELSE [b |-> [encoding |-> "snappy", srcLen |-> marshal.len], err |-> ""]

newRequestBody(data, marshal) ==
    IF marshal.err
    THEN [b |-> NoBody, err |-> "encoding series as protobuf write request failed"]
    ELSE IF marshal.len > b100KiB
    THEN [b |-> NoBody, err |-> "the protobuf message is too large to be handled from the cloud processor"]
    ELSE IF MaxEncodedLen(marshal.len) < 0
    THEN [b |-> NoBody, err |-> "the protobuf message is too large to be handled by Snappy encoder"]
    ELSE [b |-> [encoding |-> "snappy", srcLen |-> marshal.len], err |-> ""]

\* http.NewRequestWithContext fails on a URL it cannot parse
ValidURL(host) == host # ":bad-url"

\* what httpClient.Do answers: a transport error, or a response with a status
TransportError == [err |-> TRUE, status |-> 0]
Response(code) == [err |-> FALSE, status |-> code]

PushResult(err, reqs, marshalled) ==
    [err |-> err, requests |-> reqs, marshalled |-> marshalled]

PushRequest(mc, refID, b) ==
    [method |-> "POST",
     url |-> <<mc.host, "/v2/metrics/", refID>>,
     body |-> b,
     authorization |-> <<"Token", mc.token>>]

\* a variant that looks at the reference id only once the body is built
PushLateRefIDCheck(mc, refID, samples, marshal, resp) ==
    LET body == newRequestBody(samples, marshal)
        req == PushRequest(mc, refID, body.b)
    IN  IF body.err # "" THEN PushResult(body.err, <<>>, TRUE)
        ELSE IF refID = ""
        THEN PushResult("a Reference ID of the test run is required", <<>>, TRUE)
        ELSE IF ~ValidURL(mc.host) THEN PushResult("invalid url", <<>>, TRUE)
        ELSE IF resp.err
        THEN PushResult("failed to push metrics: transport", <<req>>, TRUE)
        ELSE IF resp.status # StatusOK
        THEN PushResult("failed to push metrics: unexpected status code", <<req>>, TRUE)
        ELSE PushResult("", <<req>>, TRUE)

\* a variant that sends the request a second time when the first attempt fails
PushWithRetry(mc, refID, samples, marshal, resp) ==
    IF refID = ""
    THEN PushResult("a Reference ID of the test run is required", <<>>, FALSE)
    ELSE LET body == newRequestBody(samples, marshal)
             req == PushRequest(mc, refID, body.b)
         IN  IF body.err # "" THEN PushResult(body.err, <<>>, TRUE)
             ELSE IF ~ValidURL(mc.host) THEN PushResult("invalid url", <<>>, TRUE)
             ELSE IF resp.err
             THEN PushResult("failed to push metrics: transport", <<req, req>>, TRUE)
             ELSE IF resp.status # StatusOK
             THEN PushResult("failed to push metrics: unexpected status code",
                             <<req, req>>, TRUE)
             ELSE PushResult("", <<req>>, TRUE)

Push(mc, refID, samples, marshal, resp) ==
    IF refID = ""
    THEN PushResult("a Reference ID of the test run is required", <<>>, FALSE)
    ELSE LET body == newRequestBody(samples, marshal)
             req == PushRequest(mc, refID, body.b)
         IN  IF body.err # "" THEN PushResult(body.err, <<>>, TRUE)
             ELSE IF ~ValidURL(mc.host) THEN PushResult("invalid url", <<>>, TRUE)
             ELSE IF resp.err
             THEN PushResult("failed to push metrics: transport", <<req>>, TRUE)
             ELSE IF resp.status # StatusOK
             THEN PushResult("failed to push metrics: unexpected status code", <<req>>, TRUE)
             ELSE PushResult("", <<req>>, TRUE)

NoMarshal == [err |-> FALSE, len |-> -1]
NoResponse == [err |-> FALSE, status |-> 0]

\* one Push invocation, as the log keeps it: its arguments, what proto.Marshal
\* and the server answered (when they were asked), and what Push returned
PushRecord(caller, refID, samples, aggregated, marshal, resp, res) ==
    [caller |-> caller, refID |-> refID, samples |-> samples,
     aggregated |-> aggregated,
     marshal |-> IF res.marshalled THEN marshal ELSE NoMarshal,
     resp |-> IF res.requests = <<>> THEN NoResponse ELSE resp,
     err |-> res.err, requests |-> res.requests, marshalled |-> res.marshalled]

SerializedSizes == {0, b100KiB - 1, b100KiB, b100KiB + 1}
MarshalOutcomes == {MarshalError} \cup {Marshalled(n) : n \in SerializedSizes}
StatusCodes == {200, 204, 404, 500}
Responses == {TransportError} \cup {Response(c) : c \in StatusCodes}

(***************************************************************************)
(* output.go: the data of package metrics that the output reads            *)
(***************************************************************************)
MaxSamples == 2
MaxTicks == 2
MaxCalls == 5
MaxSignals == 2
MaxGaugeAdds == 3

Metrics ==
    {[Name |-> "metriccounter", Type |-> "Counter"],
     [Name |-> "metricgauge", Type |-> "Gauge"],
     [Name |-> "metricrate", Type |-> "Rate"],
     [Name |-> "metrictrend", Type |-> "Trend"],
     [Name |-> "metricinvalid", Type |-> "Invalid"]}

\* a tag set is a set of <<key, value>> pairs
TagSets == {{<<"key1", "val1">>}, {<<"key1", "valsub1">>, <<"key2", "val2">>}}

SampleValues == {Real(0, 0), Real(42, 0)}

EmptyMap == [x \in {} |-> x]

\* all the orders a Go map of keys S may be ranged over in
Orders(S) ==
    {f \in [1..Cardinality(S) -> S] : \A i, j \in DOMAIN f : i # j => f[i] # f[j]}

Range(f) == {f[i] : i \in DOMAIN f}

RECURSIVE Flatten(_)
Flatten(ss) == IF ss = <<>> THEN <<>> ELSE Head(ss) \o Flatten(Tail(ss))

RECURSIVE FilterSeq(_, _)
FilterSeq(s, S) ==
    IF s = <<>> THEN <<>>
    ELSE IF Head(s) \in S THEN <<Head(s)>> \o FilterSeq(Tail(s), S)
    ELSE FilterSeq(Tail(s), S)

TimeSeriesOf(s) == [Metric |-> s.Metric, Tags |-> s.Tags]

\* the time series the producers write to, and the values they write
ProducedSeries ==
    {ts \in [Metric : Metrics, Tags : TagSets] :
        ts.Metric.Type = "Counter" \/ ts.Tags = {<<"key1", "val1">>}}

ProducedValues(m) == IF m.Type = "Rate" THEN SampleValues ELSE {Real(42, 0)}

SamplesAt(t) ==
    UNION {{[Metric |-> ts.Metric, Tags |-> ts.Tags, Time |-> t, Value |-> v] :
               v \in ProducedValues(ts.Metric)} : ts \in ProducedSeries}

\* the containers of at most n samples, created at the times t+1, t+2, ...
RECURSIVE ContainersFrom(_, _)
ContainersFrom(t, n) ==
    IF n = 0 THEN {<<>>}
    ELSE {<<>>} \cup {<<s>> \o rest : s \in SamplesAt(t + 1),
                                      rest \in ContainersFrom(t + 1, n - 1)}

(***************************************************************************)
(* output.go: aggregatedSamples                                            *)
(***************************************************************************)
NewAggregatedSamples == [Samples |-> EmptyMap]

\* a variant that puts the sample in front of the list
AddSamplePrepends(as, s) ==
    LET ts == TimeSeriesOf(s)
    IN  IF ts \notin DOMAIN as.Samples
        THEN [as EXCEPT !.Samples = (ts :> <<s>>) @@ @]
        ELSE [as EXCEPT !.Samples = [@ EXCEPT ![ts] = <<s>> \o @]]

AddSample(as, s) ==
    LET ts == TimeSeriesOf(s)
    IN  IF ts \notin DOMAIN as.Samples
        THEN [as EXCEPT !.Samples = (ts :> <<s>>) @@ @]
        ELSE [as EXCEPT !.Samples = [@ EXCEPT ![ts] = Append(@, s)]]

\* a variant that deletes nothing
CleanNothing(as) == as

Clean(as) == [as EXCEPT !.Samples = EmptyMap]

CounterValue(s) == [Time |-> s.Time, Value |-> s.Value]

\* a variant that keeps a running minimum starting from zero
GaugeValueZeroMin(s) ==
    [Time |-> s.Time, Last |-> s.Value,
     Min |-> IF RLess(s.Value, RZero) THEN s.Value ELSE RZero,
     Max |-> s.Value, Avg |-> s.Value]

GaugeValue(s) ==
    [Time |-> s.Time, Last |-> s.Value, Min |-> s.Value, Max |-> s.Value,
     Avg |-> s.Value]

\* a variant that counts every sample as non-zero
RateValueAllNonzero(s) ==
    [Time |-> s.Time, NonzeroCount |-> 1, TotalCount |-> 1]

RateValue(s) ==
    [Time |-> s.Time, NonzeroCount |-> IF s.Value # RZero THEN 1 ELSE 0, TotalCount |-> 1]

\* a variant that puts the test run id before the metric name
LabelsRunIdFirst(ts, refID, tagOrder) ==
    <<[Name |-> "test_run_id", Value |-> refID],
      [Name |-> "__name__", Value |-> ts.Metric.Name]>>
    \o [i \in DOMAIN tagOrder |-> [Name |-> tagOrder[i][1], Value |-> tagOrder[i][2]]]

Labels(ts, refID, tagOrder) ==
    <<[Name |-> "__name__", Value |-> ts.Metric.Name],
      [Name |-> "test_run_id", Value |-> refID]>>
    \o [i \in DOMAIN tagOrder |-> [Name |-> tagOrder[i][1], Value |-> tagOrder[i][2]]]

\* a variant that reports a Counter series by its last sample alone
SeriesAsProtoLastCounter(ts, samples, refID, tagOrder) ==
    [Labels |-> Labels(ts, refID, tagOrder),
     Samples |->
        CASE ts.Metric.Type = "Counter" ->
               [kind |-> "CounterSamples",
                Values |-> <<CounterValue(samples[Len(samples)])>>]
          [] ts.Metric.Type = "Gauge" ->
               [kind |-> "GaugeSamples",
                Values |-> [i \in DOMAIN samples |-> GaugeValue(samples[i])]]
          [] ts.Metric.Type = "Rate" ->
               [kind |-> "RateSamples",
                Values |-> [i \in DOMAIN samples |-> RateValue(samples[i])]]
          [] OTHER -> [kind |-> "unset", Values |-> <<>>]]

\* the pbcloud.TimeSeries of one time series that is not a Trend
SeriesAsProto(ts, samples, refID, tagOrder) ==
    [Labels |-> Labels(ts, refID, tagOrder),
     Samples |->
        CASE ts.Metric.Type = "Counter" ->
               [kind |-> "CounterSamples",
                Values |-> [i \in DOMAIN samples |-> CounterValue(samples[i])]]
          [] ts.Metric.Type = "Gauge" ->
               [kind |-> "GaugeSamples",
                Values |-> [i \in DOMAIN samples |-> GaugeValue(samples[i])]]
          [] ts.Metric.Type = "Rate" ->
               [kind |-> "RateSamples",
                Values |-> [i \in DOMAIN samples |-> RateValue(samples[i])]]
          [] OTHER -> [kind |-> "unset", Values |-> <<>>]]

\* MapAsProto, ranging over as.Samples in the order seriesOrder and over each
\* series' tags in the order tagOrders gives it; Trend series are skipped
RECURSIVE MapSeries(_, _, _, _)
MapSeries(as, refID, seriesOrder, tagOrders) ==
    IF seriesOrder = <<>> THEN <<>>
    ELSE LET ts == Head(seriesOrder)
             rest == MapSeries(as, refID, Tail(seriesOrder), tagOrders)
         IN  IF ts.Metric.Type = "Trend" THEN rest
             ELSE <<SeriesAsProto(ts, as.Samples[ts], refID, tagOrders[ts])>> \o rest

MapAsProto(as, refID, seriesOrder, tagOrders) ==
    IF Cardinality(DOMAIN as.Samples) < 1 THEN <<>>
    ELSE MapSeries(as, refID, FilterSeq(seriesOrder, DOMAIN as.Samples), tagOrders)

(***************************************************************************)
(* output.go: Output                                                       *)
(***************************************************************************)
\* a variant that takes a metric of no known type for a Counter
MetricTypeCounterByDefault(m) ==
    CASE m.Type = "Counter" -> "COUNTER"
      [] m.Type = "Gauge" -> "GAUGE"
      [] m.Type = "Rate" -> "RATE"
      [] m.Type = "Trend" -> "TREND"
      [] OTHER -> "COUNTER"

MetricType(m) ==
    CASE m.Type = "Counter" -> "COUNTER"
      [] m.Type = "Gauge" -> "GAUGE"
      [] m.Type = "Rate" -> "RATE"
      [] m.Type = "Trend" -> "TREND"
      [] OTHER -> "unset"

mapMetricProto(m, as, refID, seriesOrder, tagOrders) ==
    [Name |-> m.Name, Type |-> MetricType(m),
     TimeSeries |-> MapAsProto(as, refID, seriesOrder, tagOrders)]

\* the loop of collectSamples over the drained samples
RECURSIVE collectLoop(_, _)
collectLoop(act, samples) ==
    IF samples = <<>> THEN act
    ELSE LET s == Head(samples)
             aggr == IF s.Metric \in DOMAIN act THEN act[s.Metric]
                     ELSE NewAggregatedSamples
         IN  collectLoop((s.Metric :> AddSample(aggr, s)) @@ act, Tail(samples))

\* collectSamples on the containers GetBufferedSamples returned
collectSamples(act, samplesContainers) ==
    IF Len(samplesContainers) < 1 THEN [updates |-> FALSE, activeSeries |-> act]
    ELSE [updates |-> TRUE, activeSeries |-> collectLoop(act, Flatten(samplesContainers))]

\* every time series key held by any aggregator
AllSeries(act) == UNION {DOMAIN act[m].Samples : m \in DOMAIN act}

\* the metrics of the series seriesOrder lists, each once, in order of appearance
RECURSIVE MetricsInOrder(_, _)
MetricsInOrder(seriesOrder, seen) ==
    IF seriesOrder = <<>> THEN <<>>
    ELSE LET m == Head(seriesOrder).Metric
         IN  IF m \in seen THEN MetricsInOrder(Tail(seriesOrder), seen)
             ELSE <<m>> \o MetricsInOrder(Tail(seriesOrder), seen \cup {m})

\* an order of range over activeSeries: the metrics that hold series in the order
\* seriesOrder induces; where the skipped ones (no series) come does not matter
MetricOrder(act, seriesOrder) ==
    LET some == MetricsInOrder(seriesOrder, {})
        none == DOMAIN act \ {some[i] : i \in DOMAIN some}
    IN  some \o (CHOOSE o \in Orders(none) : TRUE)

TagOrders(S) ==
    {f \in [S -> UNION {Orders(ts.Tags) : ts \in S}] :
        \A ts \in S : f[ts] \in Orders(ts.Tags)}

\* a variant of the loop that encodes and leaves the aggregators as they are
RECURSIVE flushLoopNoClean(_, _, _, _, _)
flushLoopNoClean(act, refID, metricOrder, seriesOrder, tagOrders) ==
    IF metricOrder = <<>> THEN [metricSet |-> <<>>, activeSeries |-> act]
    ELSE LET m == Head(metricOrder)
             aggr == act[m]
             rest == flushLoopNoClean(act, refID, Tail(metricOrder), seriesOrder,
                                      tagOrders)
         IN  IF Cardinality(DOMAIN aggr.Samples) < 1 THEN rest
             ELSE [metricSet |->
                      <<mapMetricProto(m, aggr, refID, seriesOrder, tagOrders)>>
                      \o rest.metricSet,
                   activeSeries |-> rest.activeSeries]

\* a variant of the loop that encodes every metric, with samples or without
RECURSIVE flushLoopNoSkip(_, _, _, _, _)
flushLoopNoSkip(act, refID, metricOrder, seriesOrder, tagOrders) ==
    IF metricOrder = <<>> THEN [metricSet |-> <<>>, activeSeries |-> act]
    ELSE LET m == Head(metricOrder)
             aggr == act[m]
             rest == flushLoopNoSkip([act EXCEPT ![m] = Clean(aggr)], refID,
                                     Tail(metricOrder), seriesOrder, tagOrders)
         IN  [metricSet |->
                 <<mapMetricProto(m, aggr, refID, seriesOrder, tagOrders)>>
                 \o rest.metricSet,
              activeSeries |-> rest.activeSeries]

\* the loop of flushMetrics over activeSeries: encode and clean what holds samples
RECURSIVE flushLoop(_, _, _, _, _)
flushLoop(act, refID, metricOrder, seriesOrder, tagOrders) ==
    IF metricOrder = <<>> THEN [metricSet |-> <<>>, activeSeries |-> act]
    ELSE LET m == Head(metricOrder)
             aggr == act[m]
         IN  IF Cardinality(DOMAIN aggr.Samples) < 1
             THEN flushLoop(act, refID, Tail(metricOrder), seriesOrder, tagOrders)
             ELSE LET rest == flushLoop([act EXCEPT ![m] = Clean(aggr)], refID,
                                        Tail(metricOrder), seriesOrder, tagOrders)
                  IN  [metricSet |->
                          <<mapMetricProto(m, aggr, refID, seriesOrder, tagOrders)>>
                          \o rest.metricSet,
                       activeSeries |-> rest.activeSeries]

(***************************************************************************)
(* trace_id.go                                                             *)
(***************************************************************************)
k6Prefix == 494

k6CloudCode == 12

k6LocalCode == 33

traceIDEncodedSize == 16

\* An int64 x is the pair of its sign and of the digits in base 128, lowest
\* first, of x when x >= 0 and of -x - 1 (that is ^x) when x < 0: a time in
\* nanoseconds does not fit the integers of the model checker.
RECURSIVE Digits(_)
Digits(n) == IF n = 0 THEN <<>> ELSE <<n % 128>> \o Digits(n \div 128)

Int64(n) ==
    IF n >= 0 THEN [neg |-> FALSE, digits |-> Digits(n)]
    ELSE [neg |-> TRUE, digits |-> Digits(-n - 1)]

\* 2 * d + carry on base 128 digits
RECURSIVE Double(_, _)
Double(d, carry) ==
    IF d = <<>> THEN (IF carry = 0 THEN <<>> ELSE <<carry>>)
    ELSE LET x == 2 * Head(d) + carry
         IN  <<x % 128>> \o Double(Tail(d), x \div 128)

\* binary.PutUvarint: seven bits a byte, lowest first, the high bit set on
\* every byte but the last
PutUvarint(d) ==
    IF d = <<>> THEN <<0>>
    ELSE [i \in 1..Len(d) |-> IF i < Len(d) THEN d[i] + 128 ELSE d[i]]

\* binary.PutVarint: the zig-zag encoding, ux = x << 1, complemented when x < 0
PutVarint(x) == PutUvarint(Double(x.digits, IF x.neg THEN 1 ELSE 0))

\* a []byte: Go tells the nil slice from the empty one
NilBytes == [nil |-> TRUE, bytes |-> <<>>]
Bytes(b) == [nil |-> FALSE, bytes |-> b]

\* time.Time{}, the zero time of the zero traceID{}
ZeroTime == [zero |-> TRUE, unixNano |-> Int64(0)]
TimeAt(x) == [zero |-> FALSE, unixNano |-> x]

\* traceID{}
ZeroTraceID ==
    [prefix |-> 0, code |-> 0, time |-> ZeroTime, randomizedSuffix |-> NilBytes,
     serialized |-> NilBytes]

\* a variant that accepts every code
newTraceIDAnyCode(prefix, code, t, randSource) ==
    IF prefix # k6Prefix
    THEN [id |-> ZeroTraceID, err |-> "invalid prefix"]
    ELSE LET buf == PutVarint(Int64(prefix)) \o PutVarint(Int64(code))
                      \o PutVarint(t.unixNano)
             randomBytesSize == traceIDEncodedSize - Len(buf)
         IN  IF Len(randSource) < randomBytesSize
             THEN [id |-> ZeroTraceID, err |-> "failed to generate random bytes from os"]
             ELSE LET randomness == SubSeq(randSource, 1, randomBytesSize)
                  IN  [id |-> [prefix |-> prefix, code |-> code, time |-> t,
                               randomizedSuffix |-> Bytes(randomness),
                               serialized |-> Bytes(buf \o randomness)],
                       err |-> ""]

\* newTraceID; randSource is the bytes the reader still has to give, and
\* binary.Read fails when they are fewer than it was asked for
newTraceID(prefix, code, t, randSource) ==
    IF prefix # k6Prefix
    THEN [id |-> ZeroTraceID, err |-> "invalid prefix"]
    ELSE IF code # k6CloudCode /\ code # k6LocalCode
    THEN [id |-> ZeroTraceID, err |-> "invalid code"]
    ELSE LET buf == PutVarint(Int64(prefix)) \o PutVarint(Int64(code))
                      \o PutVarint(t.unixNano)
             randomBytesSize == traceIDEncodedSize - Len(buf)
         IN  IF Len(randSource) < randomBytesSize
             THEN [id |-> ZeroTraceID, err |-> "failed to generate random bytes from os"]
             ELSE LET randomness == SubSeq(randSource, 1, randomBytesSize)
                  IN  [id |-> [prefix |-> prefix, code |-> code, time |-> t,
                               randomizedSuffix |-> Bytes(randomness),
                               serialized |-> Bytes(buf \o randomness)],
                       err |-> ""]

\* hex.EncodeToString: two characters a byte, the high half first; a Go
\* string is the sequence of its characters
HexTable ==
    <<"0", "1", "2", "3", "4", "5", "6", "7", "8", "9", "a", "b", "c", "d", "e", "f">>

RECURSIVE EncodeToString(_)
EncodeToString(b) ==
    IF b = <<>> THEN <<>>
    ELSE <<HexTable[(Head(b) \div 16) + 1], HexTable[(Head(b) % 16) + 1]>>
         \o EncodeToString(Tail(b))

\* a variant that encodes whatever length it is given
EncodeAnyLength(t) ==
    IF t.serialized.nil
    THEN [out |-> <<>>, err |-> "serialized traceID is not set"]
    ELSE [out |-> EncodeToString(t.serialized.bytes), err |-> ""]

\* traceID.Encode
Encode(t) ==
    IF t.serialized.nil
    THEN [out |-> <<>>, err |-> "serialized traceID is not set"]
    ELSE IF Len(t.serialized.bytes) # traceIDEncodedSize
    THEN [out |-> <<>>, err |-> "serialized traceID has incorrect length"]
    ELSE [out |-> EncodeToString(t.serialized.bytes), err |-> ""]

(***************************************************************************)
(* controller.go                                                           *)
(***************************************************************************)
\* A Controller is what its Signal and the function its Wait returns answer:
\* the local one answers nil to both, another one may answer an error.
\* namespace is "" for a bare controller, and for the namespacedController
\* the prefix it puts before every event id.
LocalController(namespace) ==
    [namespace |-> namespace, signalErr |-> "", waitErr |-> ""]

Controllers ==
    {[namespace |-> ns, signalErr |-> se, waitErr |-> we] :
        ns \in {"", "ns"}, se \in {"", "signal failed"}, we \in {"", "wait failed"}}

\* the event id that reaches the controller underneath
EventFor(c, eventID) ==
    IF c.namespace = "" THEN eventID ELSE c.namespace \o "/" \o eventID

\* a variant that signals before it asks for the wait function
SignalAndWaitSignalsFirst(c, eventID) ==
    LET signal == [call |-> "Signal", event |-> EventFor(c, eventID), err |-> c.signalErr]
        wait == [call |-> "Wait", event |-> EventFor(c, eventID), err |-> ""]
        invoke == [call |-> "wait()", event |-> EventFor(c, eventID), err |-> c.waitErr]
    IN  IF c.signalErr # ""
        THEN [calls |-> <<signal>>, err |-> c.signalErr]
        ELSE [calls |-> <<signal, wait, invoke>>, err |-> c.waitErr]

\* SignalAndWait: the calls it makes on the controller, in order, and the
\* error it returns
SignalAndWait(c, eventID) ==
    LET wait == [call |-> "Wait", event |-> EventFor(c, eventID), err |-> ""]
        signal == [call |-> "Signal", event |-> EventFor(c, eventID), err |-> c.signalErr]
        invoke == [call |-> "wait()", event |-> EventFor(c, eventID), err |-> c.waitErr]
    IN  IF c.signalErr # ""
        THEN [calls |-> <<wait, signal>>, err |-> c.signalErr]
        ELSE [calls |-> <<wait, signal, invoke>>, err |-> c.waitErr]

(***************************************************************************)
(* package metrics: GaugeSink                                              *)
(***************************************************************************)
\* var g GaugeSink: every field has Go's zero value
ZeroGaugeSink == [Value |-> RZero, Max |-> RZero, Min |-> RZero, minSet |-> FALSE]

GaugeSinkIsEmpty(g) == ~g.minSet

\* (g *GaugeSink).Add(s): the three statements in the order of the code
GaugeSinkAdd(g, s) ==
    LET g1 == [g EXCEPT !.Value = s.Value]
        g2 == IF RLess(g1.Max, s.Value) THEN [g1 EXCEPT !.Max = s.Value] ELSE g1
    IN  IF RLess(s.Value, g2.Min) \/ ~g2.minSet
        THEN [g2 EXCEPT !.Min = s.Value, !.minSet = TRUE]
        ELSE g2

(***************************************************************************)
(* Actions                                                                 *)
(***************************************************************************)
NoHist == <<>>
NoIdx == <<>>
NoCall == <<>>

\* the values the histogram is fed: below, inside and above the trackable range
HistValues ==
    {Real(-1, Scale - 1), Real(0, 0), Real(0, 1), Real(50, 0), Real(255, 1),
     Real(300, 0), Real(highestTrackable, 0), Real(highestTrackable, 1),
     RealPow2(31)}

AppendValue(v) ==
    /\ hist = NoHist
    /\ Len(values) < MaxValues
    /\ values' = Append(values, v)
    /\ UNCHANGED <<traceVars, ctrlLog, sinkVars, hist, building, idxVars, clientVars, pushLog, outputVars>>

CallNewHistogram ==
    /\ hist = NoHist
    /\ hist' = <<newHistogram(values)>>
    /\ UNCHANGED <<traceVars, ctrlLog, sinkVars, values, building, idxVars, clientVars, pushLog, outputVars>>

\* one iteration of the loop of newHistogram: values records what was added
CallAddToBucket(v) ==
    /\ Len(values) < MaxValues
    /\ values' = Append(values, v)
    /\ building' = addToBucket(building, v)
    /\ UNCHANGED <<traceVars, ctrlLog, sinkVars, hist, idxVars, clientVars, pushLog, outputVars>>

\* the values resolveBucketIndex is probed with, all within [0, 2^30]: the first
\* integers, and the neighbourhood of every power of two and of bucket limits
IdxIntegers ==
    {w \in (0..LinearProbeMax)
           \cup {Pow2(j) + d : j \in 1..30, d \in (-ProbeDelta)..ProbeDelta}
           \cup {Pow2(j) + Pow2(j - k) + d :
                    j \in (k + 1)..29, d \in (-ProbeDelta)..ProbeDelta} :
        w >= 0 /\ w <= highestTrackable}

IdxValues ==
    {v \in {Real(w, f) : w \in IdxIntegers, f \in {0, 1}} :
        RLeq(v, Real(highestTrackable, 0))}

CallResolveBucketIndex ==
    /\ idx = NoIdx
    /\ idx' = <<resolveBucketIndex(probe[1]), resolveBucketIndex(probe[2])>>
    /\ UNCHANGED <<traceVars, ctrlLog, sinkVars, probe, histVars, clientVars, pushLog, outputVars>>

CallNewMetricsClient(host, token) ==
    LET r == NewMetricsClient(host, token)
    IN  /\ newCall = NoCall
        /\ client' = r.client
        /\ newCall' = <<[host |-> host, token |-> token, err |-> r.err]>>
        /\ UNCHANGED <<traceVars, ctrlLog, sinkVars, histVars, idxVars, pushLog, outputVars>>

CallPush(refID, marshal, resp) ==
    /\ ~client.nil
    /\ Len(pushLog) < MaxPushCalls
    /\ pushLog' = Append(pushLog,
                         PushRecord("test", refID, <<>>, EmptyMap, marshal, resp,
                                    Push(client, refID, <<>>, marshal, resp)))
    /\ UNCHANGED <<traceVars, ctrlLog, sinkVars, histVars, idxVars, clientVars, outputVars>>

SetReferenceID(refID) ==
    /\ referenceID' = refID
    /\ UNCHANGED <<traceVars, ctrlLog, sinkVars, histVars, idxVars, clientVars, pushLog, buffer, activeSeries,
                   ticks, held, calls, clock>>

\* the clock advances with every sample created, and with an empty container
AddMetricSamples(container) ==
    /\ clock < MaxSamples
    /\ buffer' = Append(buffer, container)
    /\ clock' = clock + (IF container = <<>> THEN 1 ELSE Len(container))
    /\ UNCHANGED <<traceVars, ctrlLog, sinkVars, histVars, idxVars, clientVars, pushLog, referenceID,
                   activeSeries, ticks, held, calls>>

\* one iteration of the loop of collectSamples, on a sample created now
CallAddSample(s) ==
    /\ Len(calls) < MaxCalls
    /\ calls' = Append(calls, [op |-> "AddSample", metric |-> s.Metric, sample |-> <<s>>])
    /\ clock' = clock + 1
    /\ activeSeries' = collectLoop(activeSeries, <<s>>)
    /\ UNCHANGED <<traceVars, ctrlLog, sinkVars, histVars, idxVars, clientVars, pushLog, referenceID, buffer,
                   ticks, held>>

\* aggr.Clean() on the aggregator of a metric seen before
CallClean(m) ==
    /\ Len(calls) < MaxCalls
    /\ m \in DOMAIN activeSeries
    /\ calls' = Append(calls, [op |-> "Clean", metric |-> m, sample |-> <<>>])
    /\ activeSeries' = [activeSeries EXCEPT ![m] = Clean(@)]
    /\ UNCHANGED <<traceVars, ctrlLog, sinkVars, histVars, idxVars, clientVars, pushLog, referenceID, buffer,
                   ticks, held, clock>>

\* what proto.Marshal and the server may answer during a flush
FlushMarshalOutcomes == {Marshalled(b100KiB), Marshalled(b100KiB + 1)}
FlushResponses == {Response(200), Response(500)}

\* a variant that collects the samples before it looks at the reference id
flushMetricsCollectsFirst ==
    /\ ticks < MaxTicks
    /\ ticks' = ticks + 1
    /\ UNCHANGED <<traceVars, ctrlLog, sinkVars, histVars, idxVars, clientVars, referenceID,
                   held, calls, clock>>
    /\ LET c == collectSamples(activeSeries, buffer)
       IN  /\ buffer' = <<>>
           /\ IF referenceID = "" \/ ~c.updates
              THEN /\ activeSeries' = c.activeSeries
                   /\ UNCHANGED pushLog
              ELSE \E seriesOrder \in Orders(AllSeries(c.activeSeries)),
                      tagOrders \in TagOrders(AllSeries(c.activeSeries)),
                      marshal \in FlushMarshalOutcomes,
                      resp \in FlushResponses :
                     LET f == flushLoop(c.activeSeries, referenceID,
                                        MetricOrder(c.activeSeries, seriesOrder),
                                        seriesOrder, tagOrders)
                         r == Push(client, referenceID, f.metricSet, marshal, resp)
                     IN  /\ activeSeries' = f.activeSeries
                         /\ pushLog' = Append(pushLog,
                               PushRecord("flushMetrics", referenceID, f.metricSet,
                                          c.activeSeries, marshal, resp, r))

flushMetrics ==
    /\ ticks < MaxTicks
    /\ ticks' = ticks + 1
    /\ UNCHANGED <<traceVars, ctrlLog, sinkVars, histVars, idxVars, clientVars, referenceID, calls, clock>>
    /\ IF referenceID = ""
       THEN /\ held' = held \cup {s.Time : s \in Range(Flatten(buffer))}
            /\ UNCHANGED <<buffer, activeSeries, pushLog>>
       ELSE LET c == collectSamples(activeSeries, buffer)
            IN  /\ buffer' = <<>>
                /\ UNCHANGED held
                /\ IF ~c.updates
                   THEN /\ activeSeries' = c.activeSeries
                        /\ UNCHANGED pushLog
                   ELSE \E seriesOrder \in Orders(AllSeries(c.activeSeries)),
                           tagOrders \in TagOrders(AllSeries(c.activeSeries)),
                           marshal \in FlushMarshalOutcomes,
                           resp \in FlushResponses :
                          LET f == flushLoop(c.activeSeries, referenceID,
                                             MetricOrder(c.activeSeries, seriesOrder),
                                             seriesOrder, tagOrders)
                              r == Push(client, referenceID, f.metricSet, marshal, resp)
                          IN  /\ activeSeries' = f.activeSeries
                              /\ pushLog' = Append(pushLog,
                                    PushRecord("flushMetrics", referenceID, f.metricSet,
                                               c.activeSeries, marshal, resp, r))

\* the arguments newTraceID is called with: the prefixes and codes of
\* TestNewTraceID and their neighbours, times of every varint length
TracePrefixes == {k6Prefix, 1, -k6Prefix}
TraceCodes == {k6CloudCode, k6LocalCode, 99, 0}

\* time.Date(2023, 1, 1, 0, 0, 0, 0, time.UTC).UnixNano() = 1672531200 * 10^9
Jan2023 == [neg |-> FALSE, digits |-> <<0, 0, 8, 30, 61, 72, 1, 27, 23>>]

\* math.MaxInt64 nanoseconds, the last time UnixNano can tell
MaxUnixNano == [neg |-> FALSE, digits |-> [i \in 1..9 |-> 127]]

TraceTimes == {TimeAt(Int64(0)), TimeAt(Int64(-1)), TimeAt(Jan2023), TimeAt(MaxUnixNano)}

\* dummyRandom of TestNewTraceID
DummyRandom == <<1, 2, 3, 4, 5, 6, 7, 8, 9, 10>>

RandSources == {<<>>, <<1, 2, 3>>, DummyRandom, [i \in 1..16 |-> 256 - i]}

CallNewTraceID(prefix, code, t, randSource) ==
    LET r == newTraceID(prefix, code, t, randSource)
    IN  /\ newTrace = <<>>
        /\ newTrace' = <<[prefix |-> prefix, code |-> code, t |-> t,
                          randSource |-> randSource, id |-> r.id, err |-> r.err]>>
        /\ UNCHANGED <<encodeCall, ctrlLog, sinkVars, histVars, idxVars, clientVars, pushLog,
                       outputVars>>

\* sampleSerialized of TestTraceID_Encode
SampleSerialized == [i \in 1..16 |-> i]

\* the trace ids Encode is called on: those TestTraceID_Encode builds by
\* hand, one with an empty serialized form, and the one newTraceID returned
EncodeTargets ==
    {[ZeroTraceID EXCEPT !.serialized = b] :
        b \in {NilBytes, Bytes(<<>>), Bytes(<<1, 2, 3>>), Bytes(SampleSerialized)}}
    \cup {newTrace[i].id : i \in DOMAIN newTrace}

CallEncode(t) ==
    LET r == Encode(t)
    IN  /\ encodeCall = <<>>
        /\ encodeCall' = <<[id |-> t, out |-> r.out, err |-> r.err]>>
        /\ UNCHANGED <<newTrace, ctrlLog, sinkVars, histVars, idxVars, clientVars, pushLog,
                       outputVars>>

EventIDs == {"test-start", "test-end"}

CallSignalAndWait(c, eventID) ==
    LET r == SignalAndWait(c, eventID)
    IN  /\ Len(ctrlLog) < MaxSignals
        /\ ctrlLog' = Append(ctrlLog, [eventID |-> eventID, namespace |-> c.namespace,
                                        calls |-> r.calls, err |-> r.err])
        /\ UNCHANGED <<traceVars, sinkVars, histVars, idxVars, clientVars, pushLog,
                       outputVars>>

\* the samples a gauge is given: negative, zero and positive values
GaugeSamples ==
    {[Value |-> v] : v \in {Real(-5, 0), Real(-1, Scale - 1), RZero, Real(0, 1),
                            Real(42, 0)}}

CallGaugeSinkAdd(s) ==
    /\ Len(gaugeAdds) < MaxGaugeAdds
    /\ gaugeSink' = GaugeSinkAdd(gaugeSink, s)
    /\ gaugeAdds' = Append(gaugeAdds, s)
    /\ UNCHANGED <<traceVars, ctrlLog, histVars, idxVars, clientVars, pushLog, outputVars>>

(***************************************************************************)
(* Specifications                                                          *)
(***************************************************************************)
InitIdle ==
    /\ values = <<>>
    /\ hist = NoHist
    /\ building = ZeroHistogram
    /\ probe = <<RZero, RZero>>
    /\ idx = NoIdx
    /\ client = NoClient
    /\ newCall = NoCall
    /\ pushLog = <<>>
    /\ referenceID = ""
    /\ buffer = <<>>
    /\ activeSeries = EmptyMap
    /\ ticks = 0
    /\ calls = <<>>
    /\ clock = 0
    /\ held = {}
    /\ newTrace = <<>>
    /\ encodeCall = <<>>
    /\ ctrlLog = <<>>
    /\ gaugeSink = ZeroGaugeSink
    /\ gaugeAdds = <<>>

\* the flush cycle of an Output that New has constructed
Init ==
    /\ values = <<>>
    /\ hist = NoHist
    /\ building = ZeroHistogram
    /\ probe = <<RZero, RZero>>
    /\ idx = NoIdx
    /\ client = NewMetricsClient("https://ingest.k6.io", "token").client
    /\ newCall = NoCall
    /\ pushLog = <<>>
    /\ referenceID = ""
    /\ buffer = <<>>
    /\ activeSeries = EmptyMap
    /\ ticks = 0
    /\ calls = <<>>
    /\ clock = 0
    /\ held = {}
    /\ newTrace = <<>>
    /\ encodeCall = <<>>
    /\ ctrlLog = <<>>
    /\ gaugeSink = ZeroGaugeSink
    /\ gaugeAdds = <<>>

Next ==
    \/ \E refID \in RefIDs : SetReferenceID(refID)
    \/ \E container \in ContainersFrom(clock, MaxSamples - clock) :
          AddMetricSamples(container)
    \/ flushMetrics

Spec == Init /\ [][Next]_vars

\* newHistogram on every sequence of at most MaxValues values
HistNext ==
    \/ \E v \in HistValues : AppendValue(v)
    \/ CallNewHistogram

HistSpec == InitIdle /\ [][HistNext]_vars

\* addToBucket, call by call, on every sequence of at most MaxValues values
BucketNext == \E v \in HistValues : CallAddToBucket(v)

BucketSpec == InitIdle /\ [][BucketNext]_vars

\* the aggregators on their own: samples added one by one, and Clean calls;
\* AddSample and Clean never read a sample's Value, so one value is enough
AggSamplesAt(t) == {s \in SamplesAt(t) : s.Value = Real(42, 0)}

AggNext ==
    \/ \E s \in AggSamplesAt(clock + 1) : CallAddSample(s)
    \/ \E m \in Metrics : CallClean(m)

AggSpec == InitIdle /\ [][AggNext]_vars

\* resolveBucketIndex on every pair v1 <= v2 of probe values
IdxInit ==
    /\ probe \in {p \in IdxValues \X IdxValues : RLeq(p[1], p[2])}
    /\ values = <<>>
    /\ hist = NoHist
    /\ building = ZeroHistogram
    /\ idx = NoIdx
    /\ client = NoClient
    /\ newCall = NoCall
    /\ pushLog = <<>>
    /\ referenceID = ""
    /\ buffer = <<>>
    /\ activeSeries = EmptyMap
    /\ ticks = 0
    /\ calls = <<>>
    /\ clock = 0
    /\ held = {}
    /\ newTrace = <<>>
    /\ encodeCall = <<>>
    /\ ctrlLog = <<>>
    /\ gaugeSink = ZeroGaugeSink
    /\ gaugeAdds = <<>>

IdxNext == CallResolveBucketIndex

IdxSpec == IdxInit /\ [][IdxNext]_vars

\* the push client on its own: construction, then Push calls
ClientNext ==
    \/ \E host \in Hosts, token \in Tokens : CallNewMetricsClient(host, token)
    \/ \E refID \in RefIDs, marshal \in MarshalOutcomes, resp \in Responses :
          CallPush(refID, marshal, resp)

ClientSpec == InitIdle /\ [][ClientNext]_vars

\* trace ids: one newTraceID call and one Encode call, in either order
TraceNext ==
    \/ \E prefix \in TracePrefixes, code \in TraceCodes, t \in TraceTimes,
          randSource \in RandSources : CallNewTraceID(prefix, code, t, randSource)
    \/ \E t \in EncodeTargets : CallEncode(t)

TraceSpec == InitIdle /\ [][TraceNext]_vars

\* SignalAndWait calls on the local controller and on controllers that fail
CtrlNext ==
    \E c \in Controllers \cup {LocalController("")}, eventID \in EventIDs :
        CallSignalAndWait(c, eventID)

CtrlSpec == InitIdle /\ [][CtrlNext]_vars

\* Add calls on a fresh GaugeSink, on every sequence of at most MaxGaugeAdds
\* samples
GaugeNext == \E s \in GaugeSamples : CallGaugeSinkAdd(s)

GaugeSpec == InitIdle /\ [][GaugeNext]_vars

(***************************************************************************)
(* Properties                                                              *)
(***************************************************************************)
\* the Push invocations so far
PushRecords == {pushLog[i] : i \in DOMAIN pushLog}

\* the samples a set of aggregators holds
AggregatedSamples(act) ==
    UNION {UNION {{act[m].Samples[ts][i] : i \in DOMAIN act[m].Samples[ts]} :
                     ts \in DOMAIN act[m].Samples} : m \in DOMAIN act}

\* their times, which identify them
AggregatedTimes(act) == {s.Time : s \in AggregatedSamples(act)}

\* the value points of a batch, one <<metric, series, point>> position each
BatchPoints(metricSet) ==
    UNION {UNION {{<<j, n, i>> : i \in DOMAIN metricSet[j].TimeSeries[n].Samples.Values} :
                     n \in DOMAIN metricSet[j].TimeSeries} : j \in DOMAIN metricSet}

PointAt(metricSet, x) == metricSet[x[1]].TimeSeries[x[2]].Samples.Values[x[3]]

BatchTimes(metricSet) == {PointAt(metricSet, x).Time : x \in BatchPoints(metricSet)}

\* C1: for every sequence of values, the histogram newHistogram returns has
\* Count = ExtraLowBucket + ExtraHighBucket + the sum of its trimmed Buckets.
C1_CountIsBucketTotal ==
    hist # NoHist =>
        hist[1].Count = hist[1].ExtraLowBucket + hist[1].ExtraHighBucket
                        + SumSeq(hist[1].Buckets)

\* C2: a Trend metric with samples aggregated at flush time has, in the encoded
\* batch, one time series per aggregated series, each carrying exactly one
\* histogram value and no counter, gauge or rate points.
C2_TrendSeriesAsHistogram ==
    \A r \in PushRecords :
        \A m \in DOMAIN r.aggregated :
            (m.Type = "Trend" /\ DOMAIN r.aggregated[m].Samples # {}) =>
                \E j \in DOMAIN r.samples :
                    /\ r.samples[j].Name = m.Name
                    /\ Len(r.samples[j].TimeSeries)
                          = Cardinality(DOMAIN r.aggregated[m].Samples)
                    /\ \A n \in DOMAIN r.samples[j].TimeSeries :
                          /\ r.samples[j].TimeSeries[n].Samples.kind = "TrendHdrSamples"
                          /\ Len(r.samples[j].TimeSeries[n].Samples.Values) = 1

\* C3: delivery is at most once. No sample is in more than one batch handed to
\* Push, nor twice in one; a batch carries only samples drained in its own tick;
\* and at the end of every tick, also one whose Push failed, every per-metric
\* aggregator is empty, so that the samples of a failed tick are dropped.
C3_AtMostOnce ==
    /\ \A m \in DOMAIN activeSeries : DOMAIN activeSeries[m].Samples = {}
    /\ \A i \in DOMAIN pushLog :
          /\ Cardinality(BatchPoints(pushLog[i].samples))
                = Cardinality(BatchTimes(pushLog[i].samples))
          /\ BatchTimes(pushLog[i].samples) \subseteq AggregatedTimes(pushLog[i].aggregated)
          /\ \A j \in DOMAIN pushLog :
                i < j => /\ BatchTimes(pushLog[i].samples)
                               \cap BatchTimes(pushLog[j].samples) = {}
                         /\ AggregatedTimes(pushLog[i].aggregated)
                               \cap AggregatedTimes(pushLog[j].aggregated) = {}

\* a tick whose Push failed with samples aggregated, then a later tick that
\* pushed a batch with samples of its own
C3_Witness ==
    \E i, j \in DOMAIN pushLog :
        /\ i < j
        /\ pushLog[i].err # ""
        /\ BatchTimes(pushLog[i].samples) # {}
        /\ BatchTimes(pushLog[j].samples) # {}
        /\ pushLog[j].err = ""

\* C4: Push with an empty referenceID returns an error before the batch is
\* serialized and without issuing any HTTP request.
C4_EmptyRefIDFailsFast ==
    \A r \in PushRecords :
        r.refID = "" => r.err # "" /\ ~r.marshalled /\ r.requests = <<>>

C4_Witness == \E r \in PushRecords : r.refID = "" /\ r.err # ""

\* C5: a batch serialized to more than 102400 bytes makes Push return an error
\* with no HTTP request sent; one of exactly 102400 bytes or fewer passes the size
\* check, and its whole body goes into the request.
C5_SizeCap ==
    \A r \in PushRecords :
        (r.marshalled /\ ~r.marshal.err) =>
            /\ r.marshal.len > 102400 => r.err # "" /\ r.requests = <<>>
            /\ (r.marshal.len <= 102400 /\ ValidURL(client.host)) =>
                  /\ Len(r.requests) = 1
                  /\ r.requests[1].body = [encoding |-> "snappy", srcLen |-> r.marshal.len]

C5_Witness ==
    /\ \E r \in PushRecords : r.marshalled /\ r.marshal.len = 102401 /\ r.requests = <<>>
    /\ \E r \in PushRecords : r.marshalled /\ r.marshal.len = 102400 /\ Len(r.requests) = 1

\* C6: a Push that reaches the server succeeds when the server answers with a
\* 2xx status, and fails when it answers with another status or the transport
\* fails.
C6_SuccessOn2xx ==
    \A r \in PushRecords :
        r.requests # <<>> =>
            (r.err = "" <=> (~r.resp.err /\ r.resp.status \in 200..299))

\* C7: every invocation of Push issues at most one HTTP request; a transport
\* error or a status that is not a success is returned, after that one request.
C7_AtMostOneRequest ==
    \A r \in PushRecords :
        /\ Len(r.requests) <= 1
        /\ (r.requests # <<>> /\ (r.resp.err \/ r.resp.status \notin 200..299)) =>
              r.err # "" /\ Len(r.requests) = 1

C7_Witness ==
    /\ \E r \in PushRecords : r.requests # <<>> /\ r.resp.err /\ r.err # ""
    /\ \E r \in PushRecords : r.requests # <<>> /\ ~r.resp.err /\ r.resp.status = 500

\* C8: NewMetricsClient returns an error and no client when host or token is
\* empty, and a client and no error when both are not.
C8_NewMetricsClient ==
    newCall # NoCall =>
        /\ (newCall[1].host = "" \/ newCall[1].token = "") =>
              newCall[1].err # "" /\ client.nil
        /\ (newCall[1].host # "" /\ newCall[1].token # "") =>
              /\ newCall[1].err = ""
              /\ ~client.nil
              /\ client.host = newCall[1].host
              /\ client.token = newCall[1].token

C8_Witness ==
    /\ newCall # NoCall
    /\ newCall[1].host # ""
    /\ newCall[1].token = ""
    /\ client.nil

\* a flush whose aggregators held one Counter sample and one Gauge sample of the
\* same value, and nothing else
CounterAndGauge(r, c, g) ==
    /\ r.caller = "flushMetrics"
    /\ AggregatedSamples(r.aggregated) = {c, g}
    /\ c.Metric.Type = "Counter"
    /\ g.Metric.Type = "Gauge"
    /\ c.Value = g.Value

\* C9: with a reference id set, one Counter sample and one Gauge sample of the
\* same value v flushed in one cycle give a batch of exactly two metrics: the
\* Counter with one time series of one point of value v, the Gauge with one time
\* series of one point with last = min = max = avg = v.
C9_CounterAndGaugeEndToEnd ==
    \A r \in PushRecords :
        \A c, g \in AggregatedSamples(r.aggregated) :
            CounterAndGauge(r, c, g) =>
                /\ r.refID # ""
                /\ Len(r.samples) = 2
                /\ \E i, j \in DOMAIN r.samples :
                      /\ r.samples[i].Name = c.Metric.Name
                      /\ r.samples[i].Type = "COUNTER"
                      /\ Len(r.samples[i].TimeSeries) = 1
                      /\ r.samples[i].TimeSeries[1].Samples
                            = [kind |-> "CounterSamples",
                               Values |-> <<[Time |-> c.Time, Value |-> c.Value]>>]
                      /\ r.samples[j].Name = g.Metric.Name
                      /\ r.samples[j].Type = "GAUGE"
                      /\ Len(r.samples[j].TimeSeries) = 1
                      /\ r.samples[j].TimeSeries[1].Samples
                            = [kind |-> "GaugeSamples",
                               Values |-> <<[Time |-> g.Time, Last |-> c.Value,
                                             Min |-> c.Value, Max |-> c.Value,
                                             Avg |-> c.Value]>>]

C9_Witness ==
    \E r \in PushRecords :
        \E c, g \in AggregatedSamples(r.aggregated) :
            CounterAndGauge(r, c, g) /\ c.Value = Real(42, 0) /\ Len(r.samples) = 2

\* C10: for all values v1 <= v2 within [0, 2^30], resolveBucketIndex(v1) <=
\* resolveBucketIndex(v2), also across the limit between the linear region
\* (ceil(v) < 256) and the logarithmic one.
C10_IndexMonotone ==
    (/\ idx # NoIdx
     /\ RLeq(RZero, probe[1])
     /\ RLeq(probe[1], probe[2])
     /\ RLeq(probe[2], RealPow2(30))) => idx[1] <= idx[2]

C10_Witness ==
    /\ idx # NoIdx
    /\ RLeq(probe[1], probe[2])
    /\ Ceil(probe[1]) = 255
    /\ Ceil(probe[2]) = 256
    /\ idx[1] < idx[2]

\* the probes that are integers, as integers
ProbeIntegers == <<Ceil(probe[1]), Ceil(probe[2])>>

\* C11: the bucket mapping keeps the relative error within 0.1%: two integers
\* u1 <= u2 of [256, 2^30] that share a bucket satisfy u2 - u1 <= u1 / 1000,
\* and two different integers below 256 never share a bucket.
C11_RelativeError ==
    (/\ idx # NoIdx
     /\ probe[1].f = 0
     /\ probe[2].f = 0
     /\ ProbeIntegers[1] <= ProbeIntegers[2]
     /\ ProbeIntegers[2] <= highestTrackable)
        => /\ (ProbeIntegers[1] >= 256 /\ idx[1] = idx[2])
                => ProbeIntegers[2] - ProbeIntegers[1] <= ProbeIntegers[1] \div 1000
           /\ (ProbeIntegers[1] < ProbeIntegers[2] /\ ProbeIntegers[2] < 256)
                => idx[1] # idx[2]

\* the value the last call of addToBucket added
LastAdded == values[Len(values)]

\* C12: addToBucket of a value above 2^30 (2^31 included) increments
\* ExtraHighBucket and addToBucket of a value below 0 increments
\* ExtraLowBucket; either call leaves the other overflow counter, the bucket
\* array and the first and last non-zero bucket markers as they were.
C12_OutOfRangeFrame ==
    [][Len(values') = Len(values) + 1 =>
        LET v == values'[Len(values')]
            high == RLess(RealPow2(30), v)
            low == RLess(v, RZero)
        IN  (high \/ low) =>
               /\ building'.ExtraHighBucket
                     = building.ExtraHighBucket + (IF high THEN 1 ELSE 0)
               /\ building'.ExtraLowBucket
                     = building.ExtraLowBucket + (IF low THEN 1 ELSE 0)
               /\ building'.Buckets = building.Buckets
               /\ building'.FirstNotZeroBucket = building.FirstNotZeroBucket
               /\ building'.LastNotZeroBucket = building.LastNotZeroBucket]_vars

C12_Witness ==
    /\ Len(values) = 3
    /\ values[1] = Real(50, 0)
    /\ values[2] = RealPow2(31)
    /\ RLess(LastAdded, RZero)
    /\ building.ExtraHighBucket = 1
    /\ building.ExtraLowBucket = 1
    /\ Len(building.Buckets) = 51
    /\ building.FirstNotZeroBucket = 50
    /\ building.LastNotZeroBucket = 50

\* C13: for a single value v of the range with ceil(v) < 256 the bucket index
\* is ceil(v), and newHistogram([v]) has its first non-zero bucket at
\* ceil(v), a bucket array of exactly one bucket of count 1, Min = Max = Sum =
\* v and Count = 1.
C13_LinearSingleValue ==
    (/\ hist # NoHist
     /\ Len(values) = 1
     /\ RLeq(RZero, values[1])
     /\ RLeq(values[1], RealPow2(30))
     /\ Ceil(values[1]) < 256)
        => /\ resolveBucketIndex(values[1]) = Ceil(values[1])
           /\ hist[1].FirstNotZeroBucket = Ceil(values[1])
           /\ hist[1].Buckets = <<1>>
           /\ hist[1].Min = values[1]
           /\ hist[1].Max = values[1]
           /\ hist[1].Sum = values[1]
           /\ hist[1].Count = 1

\* (n << 7) + (u >> n) with n = floor(log2(u >> 7)), for 256 <= u <= 2^30: n is
\* the number with 2^(n+7) <= u < 2^(n+8)
LogIndex(u) ==
    LET n == CHOOSE j \in 1..23 : u \div Pow2(j + 7) = 1
    IN  n * 128 + (u \div Pow2(n))

\* C14: for a value v of the range with u = ceil(v) >= 256 the bucket index is
\* (n << 7) + (u >> n), n = floor(log2(u >> 7)), and newHistogram([v, v]) has
\* Count = 2 and a bucket array of one bucket of count 2 at that index.
C14_LogarithmicPair ==
    (/\ hist # NoHist
     /\ Len(values) = 2
     /\ values[1] = values[2]
     /\ RLeq(RZero, values[1])
     /\ RLeq(values[1], RealPow2(30))
     /\ Ceil(values[1]) >= 256)
        => /\ resolveBucketIndex(values[1]) = LogIndex(Ceil(values[1]))
           /\ hist[1].FirstNotZeroBucket = LogIndex(Ceil(values[1]))
           /\ hist[1].LastNotZeroBucket = LogIndex(Ceil(values[1]))
           /\ hist[1].Buckets = <<2>>
           /\ hist[1].Count = 2

C14_Witness ==
    /\ hist # NoHist
    /\ values = <<Real(300, 0), Real(300, 0)>>
    /\ hist[1].FirstNotZeroBucket = 278
    /\ hist[1].Buckets = <<2>>
    /\ hist[1].Count = 2

\* C15: newHistogram of the empty sequence returns a zeroed histogram: Count,
\* Min, Max, Sum and both overflow counters are 0 and there are no buckets.
C15_EmptyInput ==
    (hist # NoHist /\ values = <<>>)
        => /\ hist[1].Count = 0
           /\ hist[1].Min = Real(0, 0)
           /\ hist[1].Max = Real(0, 0)
           /\ hist[1].Sum = Real(0, 0)
           /\ hist[1].ExtraLowBucket = 0
           /\ hist[1].ExtraHighBucket = 0
           /\ hist[1].Buckets = <<>>

C15_Witness ==
    /\ values = <<>>
    /\ hist # NoHist
    /\ hist[1].Count = 0
    /\ Len(hist[1].Buckets) = 0

\* the positions of a sequence whose value is within the trackable range
Trackable(vs) ==
    {i \in DOMAIN vs : RLeq(RZero, vs[i]) /\ RLeq(vs[i], RealPow2(30))}

AddedSince(from, ts) ==
    LET Adds(c) == c.op = "AddSample" /\ TimeSeriesOf(c.sample[1]) = ts
        sel == SelectSeq(SubSeq(calls, from + 1, Len(calls)), Adds)
    IN  [i \in 1..Len(sel) |-> sel[i].sample[1]]

\* the position of the last Clean of the aggregator of metric m, or 0
LastClean(m) ==
    LET cleans == {i \in DOMAIN calls : calls[i].op = "Clean" /\ calls[i].metric = m}
    IN  IF cleans = {} THEN 0 ELSE CHOOSE i \in cleans : \A j \in cleans : j <= i

\* C17: after samples went to a series and Clean ran on the aggregator of its
\* metric, the series holds no samples while the metric stays in activeSeries;
\* a later AddSample for the series, with no registration in between, makes
\* its list hold only the samples added since.
C17_CleanThenAdd ==
    \A i \in DOMAIN calls :
        LET m == calls[i].metric
        IN  /\ m \in DOMAIN activeSeries
            /\ \A ts \in {s \in ProducedSeries : s.Metric = m} :
                   LET added == AddedSince(LastClean(m), ts)
                   IN  IF added = <<>>
                       THEN ts \notin DOMAIN activeSeries[m].Samples
                       ELSE /\ ts \in DOMAIN activeSeries[m].Samples
                            /\ activeSeries[m].Samples[ts] = added

\* three samples went to one series, Clean emptied it, and the fourth sample
\* is alone in its list
C17_Witness ==
    /\ Len(calls) = 5
    /\ calls[4].op = "Clean"
    /\ \E ts \in ProducedSeries :
          /\ \A i \in {1, 2, 3, 5} :
                 calls[i].op = "AddSample" /\ TimeSeriesOf(calls[i].sample[1]) = ts
          /\ calls[4].metric = ts.Metric
          /\ activeSeries[ts.Metric].Samples[ts] = <<calls[5].sample[1]>>

\* C18: a flush tick with a test run id drains the sample buffer, and it
\* encodes and pushes a batch if and only if the drain held at least one
\* sample: collectSamples answers true exactly then, and a tick that observed
\* no sample ends without a Push.
C18_PushOnlyWithSamples ==
    [][(ticks' = ticks + 1 /\ referenceID # "") =>
          /\ buffer' = <<>>
          /\ Len(pushLog') = Len(pushLog) + 1 <=> Flatten(buffer) # <<>>
          /\ Flatten(buffer) = <<>> => pushLog' = pushLog]_vars

\* the metrics of the aggregators that hold no sample when the batch is built
Idle(aggregated) ==
    {m \in DOMAIN aggregated : DOMAIN aggregated[m].Samples = {}}

\* C19: in a flush tick the batch has an entry for a metric only if the
\* aggregator of the metric holds a sample at that time; a metric seen in an
\* earlier tick and without a sample in this one has no entry.
C19_IdleMetricSkipped ==
    \A r \in PushRecords :
        r.caller = "flushMetrics" =>
           /\ \A j \in DOMAIN r.samples :
                  \E m \in DOMAIN r.aggregated \ Idle(r.aggregated) :
                     m.Name = r.samples[j].Name
           /\ \A m \in Idle(r.aggregated) :
                  \A j \in DOMAIN r.samples : r.samples[j].Name # m.Name

C19_Witness ==
    /\ Len(pushLog) = 2
    /\ Len(pushLog[1].samples) = 1
    /\ Len(pushLog[2].samples) = 1
    /\ Cardinality(DOMAIN pushLog[2].aggregated) = 2
    /\ \E m \in Idle(pushLog[2].aggregated) : pushLog[1].samples[1].Name = m.Name

\* the samples of the sequence drained that belong to the series ts, in order
OfSeries(drained, ts) ==
    LET Belongs(s) == TimeSeriesOf(s) = ts
    IN  SelectSeq(drained, Belongs)

\* C20: after collectSamples every drained sample is held under its metric
\* and its time series, a series being a metric with a set of tags; the list
\* of a series is the drained samples of the series in arrival order, none
\* lost and none twice; activeSeries has one entry per metric seen so far.
C20_CollectedBySeries ==
    [][Len(pushLog') = Len(pushLog) + 1 =>
          LET agg == pushLog'[Len(pushLog')].aggregated
              drained == Flatten(buffer)
          IN  /\ DOMAIN agg = DOMAIN activeSeries
                                 \cup {drained[i].Metric : i \in DOMAIN drained}
              /\ \A i \in DOMAIN drained :
                     TimeSeriesOf(drained[i])
                        \in DOMAIN agg[drained[i].Metric].Samples
              /\ \A m \in DOMAIN agg :
                     \A ts \in DOMAIN agg[m].Samples :
                        /\ ts.Metric = m
                        /\ agg[m].Samples[ts] = OfSeries(drained, ts)]_vars

\* two samples of one series in one drain, held in arrival order
C20_Witness ==
    \E r \in PushRecords :
        \E m \in DOMAIN r.aggregated :
           \E ts \in DOMAIN r.aggregated[m].Samples :
              /\ Len(r.aggregated[m].Samples[ts]) = 2
              /\ r.aggregated[m].Samples[ts][1].Time = 1
              /\ r.aggregated[m].Samples[ts][2].Time = 2

\* the Push records the flush cycle made
FlushRecords == {r \in PushRecords : r.caller = "flushMetrics"}

\* the tags an encoded label list carries after its two reserved labels
TagsOfLabels(labels) ==
    {<<labels[i].Name, labels[i].Value>> : i \in 3..Len(labels)}

\* the <<metric, series>> positions of a batch that encode the time series ts
EncodedAt(metricSet, ts) ==
    UNION {{<<j, n>> : n \in {x \in DOMAIN metricSet[j].TimeSeries :
                                 TagsOfLabels(metricSet[j].TimeSeries[x].Labels)
                                    = ts.Tags}} :
              j \in {x \in DOMAIN metricSet : metricSet[x].Name = ts.Metric.Name}}

\* the time series of the given types that held samples when r was built
SeriesOfTypes(r, types) ==
    UNION {{ts \in DOMAIN r.aggregated[m].Samples : ts.Metric.Type \in types} :
              m \in DOMAIN r.aggregated}

\* C21: a Counter or Gauge series holding n samples is encoded as n points in
\* arrival order, one per sample with the sample's time: a Counter point has
\* the sample's value, a Gauge point has last = min = max = avg = the value.
C21_PointPerSample ==
    \A r \in FlushRecords :
        \A ts \in SeriesOfTypes(r, {"Counter", "Gauge"}) :
           LET kept == r.aggregated[ts.Metric].Samples[ts]
               at == EncodedAt(r.samples, ts)
           IN  /\ Cardinality(at) = 1
               /\ \A x \in at :
                      LET vals == r.samples[x[1]].TimeSeries[x[2]].Samples.Values
                      IN  /\ Len(vals) = Len(kept)
                          /\ \A i \in DOMAIN kept :
                                 vals[i] =
                                    IF ts.Metric.Type = "Counter"
                                    THEN [Time |-> kept[i].Time,
                                          Value |-> kept[i].Value]
                                    ELSE [Time |-> kept[i].Time,
                                          Last |-> kept[i].Value,
                                          Min |-> kept[i].Value,
                                          Max |-> kept[i].Value,
                                          Avg |-> kept[i].Value]

\* two samples of 42 in one Counter series: two points of 42, not one of 84
C21_Witness ==
    \E r \in FlushRecords :
        \E ts \in SeriesOfTypes(r, {"Counter"}) :
           /\ Len(r.aggregated[ts.Metric].Samples[ts]) = 2
           /\ Len(r.samples) = 1
           /\ Len(r.samples[1].TimeSeries) = 1
           /\ r.samples[1].TimeSeries[1].Samples.Values
                 = <<[Time |-> 1, Value |-> Real(42, 0)],
                     [Time |-> 2, Value |-> Real(42, 0)]>>

\* C22: a Rate series holding n samples is encoded as n points, one per
\* sample in arrival order, each with totalCount = 1 and nonzeroCount = 1 when
\* the sample's value is not 0 and nonzeroCount = 0 when it is.
C22_RatePointPerSample ==
    \A r \in FlushRecords :
        \A ts \in SeriesOfTypes(r, {"Rate"}) :
           LET kept == r.aggregated[ts.Metric].Samples[ts]
               at == EncodedAt(r.samples, ts)
           IN  /\ Cardinality(at) = 1
               /\ \A x \in at :
                      LET vals == r.samples[x[1]].TimeSeries[x[2]].Samples.Values
                      IN  /\ Len(vals) = Len(kept)
                          /\ \A i \in DOMAIN kept :
                                 vals[i] =
                                    [Time |-> kept[i].Time,
                                     NonzeroCount |->
                                        IF kept[i].Value = Real(0, 0) THEN 0 ELSE 1,
                                     TotalCount |-> 1]

\* a Rate series with a sample of 0 and then one of 42
C22_Witness ==
    \E r \in FlushRecords :
        \E ts \in SeriesOfTypes(r, {"Rate"}) :
           /\ Len(r.samples) = 1
           /\ Len(r.samples[1].TimeSeries) = 1
           /\ r.samples[1].TimeSeries[1].Samples.Values
                 = <<[Time |-> 1, NonzeroCount |-> 0, TotalCount |-> 1],
                     [Time |-> 2, NonzeroCount |-> 1, TotalCount |-> 1]>>

\* C23: every encoded time series has the label __name__ = metric name first
\* and test_run_id = reference id second, then one label per tag of the series
\* it encodes: these two labels and the tags, and nothing else.
C23_Labels ==
    \A r \in FlushRecords :
        \A j \in DOMAIN r.samples :
           \A n \in DOMAIN r.samples[j].TimeSeries :
              LET labels == r.samples[j].TimeSeries[n].Labels
              IN  /\ Len(labels) >= 2
                  /\ labels[1] = [Name |-> "__name__", Value |-> r.samples[j].Name]
                  /\ labels[2] = [Name |-> "test_run_id", Value |-> r.refID]
                  /\ \E ts \in SeriesOfTypes(r, {"Counter", "Gauge", "Rate", "Invalid"}) :
                         /\ ts.Metric.Name = r.samples[j].Name
                         /\ TagsOfLabels(labels) = ts.Tags
                         /\ Len(labels) = 2 + Cardinality(ts.Tags)

\* a series of two tags, encoded with key2 before key1
C23_Witness ==
    \E r \in FlushRecords :
        \E j \in DOMAIN r.samples :
           \E n \in DOMAIN r.samples[j].TimeSeries :
              r.samples[j].TimeSeries[n].Labels
                 = <<[Name |-> "__name__", Value |-> "metriccounter"],
                     [Name |-> "test_run_id", Value |-> "fake-test-id"],
                     [Name |-> "key2", Value |-> "val2"],
                     [Name |-> "key1", Value |-> "valsub1"]>>

\* the metric types mapMetricProto has a case for
KnownTypes == {"Counter", "Gauge", "Rate", "Trend"}

\* C27: a metric whose type is none of Counter, Gauge, Rate and Trend is
\* encoded like any other, no error stopping the flush, and its entry in the
\* batch has the unset type tag.
C27_UnknownTypeUnset ==
    \A r \in FlushRecords :
        \A m \in DOMAIN r.aggregated \ Idle(r.aggregated) :
           m.Type \notin KnownTypes =>
              /\ Cardinality({j \in DOMAIN r.samples : r.samples[j].Name = m.Name}) = 1
              /\ \A j \in DOMAIN r.samples :
                     r.samples[j].Name = m.Name => r.samples[j].Type = "unset"

C27_Witness ==
    \E r \in FlushRecords :
        /\ Len(r.samples) = 2
        /\ \E j \in DOMAIN r.samples :
              /\ r.samples[j].Name = "metricinvalid"
              /\ r.samples[j].Type = "unset"
              /\ Len(r.samples[j].TimeSeries) = 1
        /\ r.requests # <<>>

\* C24: newTraceID returns an error and the empty trace id when the prefix is
\* not 0o756 or the code is neither 12 nor 33; with a valid prefix and code
\* and enough random bytes (12 always are, and the 10 of the test for a time
\* of 2023) it returns a trace id with the prefix, code and time given and
\* with a random suffix that is the first bytes of the random source.
C24_NewTraceID ==
    \A i \in DOMAIN newTrace :
        LET c == newTrace[i]
            valid == c.prefix = 494 /\ c.code \in {12, 33}
        IN  /\ ~valid => c.err # "" /\ c.id = ZeroTraceID
            /\ (valid /\ Len(c.randSource) >= 12) => c.err = ""
            /\ (valid /\ c.t = TimeAt(Jan2023) /\ c.randSource = DummyRandom)
                  => c.err = "" /\ c.id.randomizedSuffix = Bytes(<<1, 2, 3, 4>>)
            /\ (valid /\ c.err = "") =>
                  /\ c.id.prefix = c.prefix
                  /\ c.id.code = c.code
                  /\ c.id.time = c.t
                  /\ ~c.id.randomizedSuffix.nil
                  /\ Len(c.id.randomizedSuffix.bytes) >= 1
                  /\ c.id.randomizedSuffix.bytes
                        = SubSeq(c.randSource, 1, Len(c.id.randomizedSuffix.bytes))

\* the first case of TestNewTraceID
C24_Witness ==
    /\ newTrace # <<>>
    /\ newTrace[1].prefix = 494
    /\ newTrace[1].code = 12
    /\ newTrace[1].t = TimeAt(Jan2023)
    /\ newTrace[1].randSource = DummyRandom
    /\ newTrace[1].err = ""
    /\ newTrace[1].id.randomizedSuffix.bytes = <<1, 2, 3, 4>>
    /\ Len(newTrace[1].id.serialized.bytes) = 16

\* the value of a hexadecimal character
HexValue(c) == (CHOOSE v \in 1..16 : HexTable[v] = c) - 1

\* C25: Encode returns an error when the serialized trace id is unset or is
\* not 16 bytes long and otherwise the 32 hexadecimal characters of the 16
\* bytes; a trace id newTraceID returned without error has a serialized form
\* of 16 bytes ending in its random suffix, so Encode does not fail on it.
C25_Encode ==
    /\ \A i \in DOMAIN newTrace :
           newTrace[i].err = "" =>
              LET id == newTrace[i].id
                  n == 16 - Len(id.randomizedSuffix.bytes)
              IN  /\ ~id.serialized.nil
                  /\ Len(id.serialized.bytes) = 16
                  /\ n >= 3
                  /\ SubSeq(id.serialized.bytes, n + 1, 16) = id.randomizedSuffix.bytes
    /\ \A i \in DOMAIN encodeCall :
           LET e == encodeCall[i]
           IN  /\ (e.id.serialized.nil \/ Len(e.id.serialized.bytes) # 16)
                     => e.err # "" /\ e.out = <<>>
               /\ (~e.id.serialized.nil /\ Len(e.id.serialized.bytes) = 16)
                     => /\ e.err = ""
                        /\ Len(e.out) = 32
                        /\ \A j \in 1..16 :
                               16 * HexValue(e.out[2 * j - 1]) + HexValue(e.out[2 * j])
                                  = e.id.serialized.bytes[j]
               /\ \A j \in DOMAIN newTrace :
                      (newTrace[j].err = "" /\ e.id = newTrace[j].id) => e.err = ""

\* Encode on the trace id of the first case of TestNewTraceID: the varints of
\* 0o756, 12 and the time, then 01 02 03 04
C25_Witness ==
    /\ C24_Witness
    /\ encodeCall # <<>>
    /\ encodeCall[1].id = newTrace[1].id
    /\ encodeCall[1].err = ""
    /\ SubSeq(encodeCall[1].out, 1, 6) = <<"d", "c", "0", "7", "1", "8">>
    /\ SubSeq(encodeCall[1].out, 25, 32) = <<"0", "1", "0", "2", "0", "3", "0", "4">>

\* the total of a sequence of values, field by field
TotalOf(vs) ==
    LET f == SumSeq([i \in DOMAIN vs |-> vs[i].f])
        lo == SumSeq([i \in DOMAIN vs |-> vs[i].lo]) + (f \div Scale)
    IN  [hi |-> SumSeq([i \in DOMAIN vs |-> vs[i].hi]) + (lo \div Base),
         lo |-> lo % Base, f |-> f % Scale]

\* C26: every value of a non-empty sequence, those counted in the overflow
\* counters too, enters the statistics: Count is the number of values, Sum
\* their total, Min the smallest and Max the largest of them, so Min <= Max.
C26_RunningStats ==
    (hist # NoHist /\ values # <<>>)
        => /\ hist[1].Count = Len(values)
           /\ hist[1].Sum = TotalOf(values)
           /\ hist[1].Min \in Range(values)
           /\ hist[1].Max \in Range(values)
           /\ \A v \in Range(values) : RLeq(hist[1].Min, v) /\ RLeq(v, hist[1].Max)
           /\ RLeq(hist[1].Min, hist[1].Max)

\* one value of the range, one above it and one below it
C26_Witness ==
    /\ hist # NoHist
    /\ values = <<Real(300, 0), RealPow2(31), Real(-1, Scale - 1)>>
    /\ hist[1].Count = 3
    /\ hist[1].ExtraHighBucket = 1
    /\ hist[1].ExtraLowBucket = 1
    /\ hist[1].Min = Real(-1, Scale - 1)
    /\ hist[1].Max = RealPow2(31)

\* C28: SignalAndWait asks the controller for the wait function of the event
\* first, signals the event next, and invokes the wait function after that
\* and only if Signal returned nil; when Signal returns an error it returns
\* that error and does not invoke the wait function.
C28_WaitBeforeSignal ==
    \A i \in DOMAIN ctrlLog :
        LET r == ctrlLog[i]
            At(call) == {j \in DOMAIN r.calls : r.calls[j].call = call}
        IN  /\ Cardinality(At("Wait")) = 1
            /\ Cardinality(At("Signal")) = 1
            /\ \A w \in At("Wait"), g \in At("Signal") : w < g
            /\ \A g \in At("Signal") :
                   IF r.calls[g].err # ""
                   THEN r.err = r.calls[g].err /\ At("wait()") = {}
                   ELSE /\ Cardinality(At("wait()")) = 1
                        /\ \A v \in At("wait()") : g < v /\ r.err = r.calls[v].err
            /\ \A j \in DOMAIN r.calls :
                   r.calls[j].event
                      = IF r.namespace = "" THEN r.eventID
                        ELSE r.namespace \o "/" \o r.eventID

\* one call whose Signal failed, and one that went on to wait
C28_Witness ==
    /\ Len(ctrlLog) = 2
    /\ ctrlLog[1].err = "signal failed"
    /\ Len(ctrlLog[1].calls) = 2
    /\ ctrlLog[2].err = "wait failed"
    /\ Len(ctrlLog[2].calls) = 3
    /\ ctrlLog[2].calls[1].event = "ns/test-start"

\* the times of the samples in the buffer
BufferedTimes(buf) == {s.Time : s \in Range(Flatten(buf))}

\* C29: a flush tick with an empty reference id does not drain the buffer,
\* changes no aggregator and calls no Push; the samples it left buffered stay
\* there until a tick with a reference id, the first one after
\* SetReferenceID, collects all of them.
C29_NoReferenceIdNoFlush ==
    [][/\ (ticks' = ticks + 1 /\ referenceID = "") =>
              /\ buffer' = buffer
              /\ activeSeries' = activeSeries
              /\ pushLog' = pushLog
       /\ (ticks' = ticks + 1 /\ referenceID # "" /\ BufferedTimes(buffer) # {}) =>
              /\ buffer' = <<>>
              /\ Len(pushLog') = Len(pushLog) + 1
              /\ BufferedTimes(buffer)
                    \subseteq AggregatedTimes(pushLog'[Len(pushLog')].aggregated)
       /\ ticks' = ticks => BufferedTimes(buffer) \subseteq BufferedTimes(buffer')
       /\ \A t \in held' :
              \/ t \in BufferedTimes(buffer')
              \/ \E i \in DOMAIN pushLog' : t \in AggregatedTimes(pushLog'[i].aggregated)]_vars

\* two samples sat through a tick without reference id and were collected by
\* the tick after SetReferenceID
C29_Witness ==
    /\ held = {1, 2}
    /\ ticks = 2
    /\ referenceID # ""
    /\ buffer = <<>>
    /\ Len(pushLog) = 1
    /\ AggregatedTimes(pushLog[1].aggregated) = {1, 2}

\* C30: the bucket index has no gap: for every integer u with 0 <= u < 2^30,
\* resolveBucketIndex(u + 1) - resolveBucketIndex(u) is 0 or 1, also from 255
\* to 256 and at every power of two.
C30_NoGap ==
    (/\ idx # NoIdx
     /\ probe[1].f = 0
     /\ probe[2].f = 0
     /\ ProbeIntegers[2] = ProbeIntegers[1] + 1
     /\ ProbeIntegers[2] <= highestTrackable)
        => idx[2] - idx[1] \in {0, 1}

\* the step from 2^30 - 1 to 2^30, into the last bucket
C30_Witness ==
    /\ idx # NoIdx
    /\ probe = <<Real(highestTrackable - 1, 0), Real(highestTrackable, 0)>>
    /\ idx[2] = idx[1] + 1
    /\ idx[2] = 3072

\* the least and the greatest of the values added so far
AddedValues == {gaugeAdds[i].Value : i \in DOMAIN gaugeAdds}
MinAdded == CHOOSE v \in AddedValues : \A w \in AddedValues : RLeq(v, w)
MaxAdded == CHOOSE v \in AddedValues : \A w \in AddedValues : RLeq(w, v)

\* C31: after any non-empty sequence of Add calls on a fresh GaugeSink, Value
\* is the value of the last sample added, Min is the minimum and Max is the
\* maximum of all values added (so Min <= Value <= Max), and IsEmpty returns
\* false.
C31_GaugeTracksExtremes ==
    gaugeAdds # <<>> =>
        /\ gaugeSink.Value = gaugeAdds[Len(gaugeAdds)].Value
        /\ gaugeSink.Min = MinAdded
        /\ gaugeSink.Max = MaxAdded
        /\ RLeq(gaugeSink.Min, gaugeSink.Value)
        /\ RLeq(gaugeSink.Value, gaugeSink.Max)
        /\ ~GaugeSinkIsEmpty(gaugeSink)

====
